---------------------------- MODULE Spec2Model ----------------------------
(***************************************************************************)
(* MCP2Lambda gateway (src/main.py): the start-up discovery pass that      *)
(* registers one tool per eligible Lambda function, the fallback to the    *)
(* two generic tools, and the tool handlers served afterwards.             *)
(*                                                                         *)
(* Strings the code inspects character by character (function names, tool  *)
(* names) are sequences of one-character strings.  Python exceptions are   *)
(* outcome records: an operator that models a function returns             *)
(* [raised |-> FALSE, value |-> v] or [raised |-> TRUE, value |-> e].      *)
(***************************************************************************)
EXTENDS Integers, Sequences, FiniteSets, TLC

VARIABLES
    PRE_DISCOVERY,  \* main.py:20-26, fixed once the arguments are parsed
    registry,       \* the remote platform's functions, in enumeration order
    pc,             \* "boot" while the module-level code has not run, then "serving"
    tools,          \* the protocol server's tool table: tool name -> handler
    boot,           \* what the discovery pass saw and did (history)
    last,           \* the last tool call: its inputs, what it did, what it gave back
    san_name,       \* sanitize_tool_name's argument
    san_result      \* sanitize_tool_name's result

vars == <<PRE_DISCOVERY, registry, pc, tools, boot, last, san_name, san_result>>

-----------------------------------------------------------------------------
(* Bounds *)

\* The most functions the remote registry holds.
MaxFunctions == 2

\* Functions per page of the enumeration (the code asks for 50 a page).
PageSize == 1

\* The longest suffix of the names sanitize_tool_name is applied to.
MaxNameLen == 2

-----------------------------------------------------------------------------
(* Configuration *)

\* main.py:29, the default value of FUNCTION_PREFIX.
FUNCTION_PREFIX == <<"m", "c", "p", "2", "l", "a", "m", "b", "d", "a", "-">>

\* A function outside the prefix that the allow-list names.
NameListed == <<"x">>

\* main.py:30, FUNCTION_LIST set to ["x"].
FUNCTION_LIST == <<NameListed>>

\* A function neither the prefix nor the allow-list covers.
NameOther == <<"o">>

\* Prefixed functions: "mcp2lambda-1", "mcp2lambda-_1" (both sanitize to "_1")
\* and "mcp2lambda-" (the prefix itself).
NameDigit == FUNCTION_PREFIX \o <<"1">>
NameUnder == FUNCTION_PREFIX \o <<"_", "1">>
NamePrefix == FUNCTION_PREFIX

FunctionNames == {NameDigit, NameUnder, NamePrefix, NameListed, NameOther}

Letters ==
    {"a", "b", "c", "d", "e", "f", "g", "h", "i", "j", "k", "l", "m",
     "n", "o", "p", "q", "r", "s", "t", "u", "v", "w", "x", "y", "z",
     "A", "B", "C", "D", "E", "F", "G", "H", "I", "J", "K", "L", "M",
     "N", "O", "P", "Q", "R", "S", "T", "U", "V", "W", "X", "Y", "Z"}

Digits == {"0", "1", "2", "3", "4", "5", "6", "7", "8", "9"}

\* The class [a-zA-Z0-9_] of main.py:55.
WordChars == Letters \cup Digits \cup {"_"}

-----------------------------------------------------------------------------
(* Helpers *)

Range(s) == {s[i] : i \in 1..Len(s)}

\* str.startswith
StartsWith(s, p) == Len(s) >= Len(p) /\ SubSeq(s, 1, Len(p)) = p

Min(a, b) == IF a < b THEN a ELSE b

Returned(v) == [raised |-> FALSE, value |-> v]

Raised(e) == [raised |-> TRUE, value |-> e]

-----------------------------------------------------------------------------
(* Naming policy *)

validate_function_name(function_name) ==
    StartsWith(function_name, FUNCTION_PREFIX) \/ function_name \in Range(FUNCTION_LIST)

sanitize_tool_name(name) ==
    LET stripped == IF StartsWith(name, FUNCTION_PREFIX)
                    THEN SubSeq(name, Len(FUNCTION_PREFIX) + 1, Len(name))
                    ELSE name
        subbed == [i \in 1..Len(stripped) |->
                      IF stripped[i] \in WordChars THEN stripped[i] ELSE "_"]
    IN  IF Len(subbed) > 0 /\ subbed[1] \in Digits
        THEN <<"_">> \o subbed
        ELSE subbed

-----------------------------------------------------------------------------
(* Remote platform *)

\* All the contents the remote registry can have: distinct names, in any order.
Registries ==
    {s \in UNION {[1..n -> FunctionNames] : n \in 0..MaxFunctions} :
        \A i, j \in 1..Len(s) : i /= j => s[i] /= s[j]}

\* The pages the paginator fetches; an empty registry still answers one (empty) page.
NumPages(reg) ==
    IF Len(reg) = 0 THEN 1 ELSE (Len(reg) + PageSize - 1) \div PageSize

Page(reg, k) == SubSeq(reg, (k - 1) * PageSize + 1, Min(k * PageSize, Len(reg)))

\* The JMESPath search of main.py:90-92 on one page.
PrefixSearch(page) == SelectSeq(page, LAMBDA f : StartsWith(f, FUNCTION_PREFIX))

JsonPayloads == {"{\"a\": 1}"}

Payloads == JsonPayloads \cup {"not json"}

\* What lambda_client.invoke answers: a result, a result carrying
\* FunctionError, or an exception (the transport failed, or no such function).
OkResponses == {[StatusCode |-> 200, Payload |-> p] : p \in Payloads}

ErrorResponses ==
    {[StatusCode |-> 200, FunctionError |-> "Unhandled",
      Payload |-> "{\"errorMessage\": \"boom\"}"]}

TransportFailure == [Error |-> "ClientError"]

RemoteOutcomes(reg, function_name) ==
    IF function_name \in Range(reg)
    THEN OkResponses \cup ErrorResponses \cup {TransportFailure}
    ELSE {TransportFailure}

\* The parameter objects a caller passes.
Parameters == {"{}", "{\"k\": 1}"}

\* json.dumps(parameters), main.py:148.
json_dumps(parameters) == [json |-> parameters]

-----------------------------------------------------------------------------
(* Registry client and response formatter *)

\* The for loop of main.py:95-97 over the pages from page k on; failAt is the
\* page whose fetch raises (0: none).
RECURSIVE CollectPages(_, _, _, _)
CollectPages(reg, k, failAt, functions) ==
    IF k > NumPages(reg) THEN Returned(functions)
    ELSE IF k = failAt THEN Returned(<<>>)
    ELSE CollectPages(reg, k + 1, failAt, functions \o PrefixSearch(Page(reg, k)))

\* A list_functions_paginated that gives back what it collected before the error.
list_functions_paginated_partial(reg, failAt) ==
    Returned(PrefixSearch(
        IF failAt = 0 THEN reg ELSE SubSeq(reg, 1, Min((failAt - 1) * PageSize, Len(reg)))))

list_functions_paginated(reg, failAt) == CollectPages(reg, 1, failAt, <<>>)

json_loads(payload) ==
    IF payload \in JsonPayloads THEN Returned(payload) ELSE Raised("JSONDecodeError")

format_lambda_response(function_name, payload) ==
    LET payload_json == json_loads(payload)
    IN  IF ~payload_json.raised
        THEN [template |-> "Function {function_name} returned: {json}",
              function_name |-> function_name, json |-> payload_json.value]
        ELSE [template |-> "Function {function_name} returned payload: {payload}",
              function_name |-> function_name, payload |-> payload]

-----------------------------------------------------------------------------
(* Tool handlers.  Each gives [invoked, errors, result]: the remote          *)
(* invocations it issued, what it logged through ctx.error, and its outcome. *)

list_lambda_functions_impl(reg, failAt) ==
    LET functions == list_functions_paginated(reg, failAt)
    IN  IF functions.raised
        THEN [invoked |-> <<>>, errors |-> <<>>, result |-> functions]
        ELSE [invoked |-> <<>>, errors |-> <<>>,
              result |-> Returned(
                  [template |-> "{json}",
                   functions |-> SelectSeq(functions.value, validate_function_name)])]

\* An invoke_lambda_function_impl without the check of main.py:140-141.
invoke_lambda_function_impl_unchecked(function_name, parameters, response) ==
    LET call == [FunctionName |-> function_name, Payload |-> json_dumps(parameters)]
    IN  IF response = TransportFailure
        THEN [invoked |-> <<call>>, errors |-> <<>>, result |-> Raised(response)]
        ELSE IF "FunctionError" \in DOMAIN response
        THEN LET error_message ==
                     [template |-> "Function {function_name} returned with error: {FunctionError}",
                      function_name |-> function_name,
                      FunctionError |-> response.FunctionError]
             IN  [invoked |-> <<call>>, errors |-> <<error_message>>,
                  result |-> Returned(error_message)]
        ELSE [invoked |-> <<call>>, errors |-> <<>>,
              result |-> Returned(format_lambda_response(function_name, response.Payload))]

\* An invoke_lambda_function_impl that raises for a name that is not valid.
invoke_lambda_function_impl_raising(function_name, parameters, response) ==
    IF ~validate_function_name(function_name)
    THEN [invoked |-> <<>>, errors |-> <<>>, result |-> Raised([Error |-> "ValueError"])]
    ELSE invoke_lambda_function_impl_unchecked(function_name, parameters, response)

\* An invoke_lambda_function_impl that does not look at FunctionError.
invoke_lambda_function_impl_noerror(function_name, parameters, response) ==
    LET call == [FunctionName |-> function_name, Payload |-> json_dumps(parameters)]
    IN  IF ~validate_function_name(function_name)
        THEN [invoked |-> <<>>, errors |-> <<>>,
              result |-> Returned([template |-> "Function {function_name} is not valid",
                                   function_name |-> function_name])]
        ELSE IF response = TransportFailure
        THEN [invoked |-> <<call>>, errors |-> <<>>, result |-> Raised(response)]
        ELSE [invoked |-> <<call>>, errors |-> <<>>,
              result |-> Returned(format_lambda_response(function_name, response.Payload))]

invoke_lambda_function_impl(function_name, parameters, response) ==
    LET call == [FunctionName |-> function_name, Payload |-> json_dumps(parameters)]
    IN  IF ~validate_function_name(function_name)
        THEN [invoked |-> <<>>, errors |-> <<>>,
              result |-> Returned([template |-> "Function {function_name} is not valid",
                                   function_name |-> function_name])]
        ELSE IF response = TransportFailure
        THEN [invoked |-> <<call>>, errors |-> <<>>, result |-> Raised(response)]
        ELSE IF "FunctionError" \in DOMAIN response
        THEN LET error_message ==
                     [template |-> "Function {function_name} returned with error: {FunctionError}",
                      function_name |-> function_name,
                      FunctionError |-> response.FunctionError]
             IN  [invoked |-> <<call>>, errors |-> <<error_message>>,
                  result |-> Returned(error_message)]
        ELSE [invoked |-> <<call>>, errors |-> <<>>,
              result |-> Returned(format_lambda_response(function_name, response.Payload))]

-----------------------------------------------------------------------------
(* The protocol server's tool table *)

\* The __name__ of the three handlers (main.py:171, 108, 135).
LambdaFunctionName ==
    <<"l", "a", "m", "b", "d", "a", "_", "f", "u", "n", "c", "t", "i", "o", "n">>

ListToolName ==
    <<"l", "i", "s", "t", "_", "l", "a", "m", "b", "d", "a", "_",
      "f", "u", "n", "c", "t", "i", "o", "n", "s", "_", "i", "m", "p", "l">>

InvokeToolName ==
    <<"i", "n", "v", "o", "k", "e", "_", "l", "a", "m", "b", "d", "a", "_",
      "f", "u", "n", "c", "t", "i", "o", "n", "_", "i", "m", "p", "l">>

ListHandler == [kind |-> "list_lambda_functions_impl", function_name |-> <<>>]

InvokeHandler == [kind |-> "invoke_lambda_function_impl", function_name |-> <<>>]

HandlerName(handler) ==
    CASE handler.kind = "lambda_function" -> LambdaFunctionName
      [] handler.kind = "list_lambda_functions_impl" -> ListToolName
      [] handler.kind = "invoke_lambda_function_impl" -> InvokeToolName

EmptyTable == [key \in {} |-> ListHandler]

\* mcp.tool(name=name)(handler), as FastMCP registers: a missing or empty name
\* stands for the handler's __name__, and a name already in the table keeps
\* the tool it has.
mcp_tool(table, name, handler) ==
    LET key == IF Len(name) = 0 THEN HandlerName(handler) ELSE name
    IN  IF key \in DOMAIN table
        THEN table
        ELSE [k \in DOMAIN table \cup {key} |-> IF k = key THEN handler ELSE table[k]]

\* A create_lambda_tool whose handler is bound to the tool name.
create_lambda_tool_by_tool_name(table, function_name, fails) ==
    LET tool_name == sanitize_tool_name(function_name)
    IN  IF fails
        THEN Raised([Error |-> "Exception"])
        ELSE Returned(mcp_tool(table, tool_name,
                 [kind |-> "lambda_function", function_name |-> tool_name]))

\* fails: the registration of main.py:181 raises.
create_lambda_tool(table, function_name, fails) ==
    LET tool_name == sanitize_tool_name(function_name)
    IN  IF fails
        THEN Raised([Error |-> "Exception"])
        ELSE Returned(mcp_tool(table, tool_name,
                 [kind |-> "lambda_function", function_name |-> function_name]))

\* The inner function of create_lambda_tool, main.py:171-174.
lambda_function(handler, parameters, response) ==
    invoke_lambda_function_impl(handler.function_name, parameters, response)

-----------------------------------------------------------------------------
(* Bootstrap *)

\* The for loop of main.py:203-214 from the k-th valid function on; regFailAt
\* is the function whose registration raises (0: none).
RECURSIVE RegisterLoop(_, _, _, _)
RegisterLoop(valid_functions, k, regFailAt, table) ==
    IF k > Len(valid_functions) THEN [raised |-> FALSE, raisedAt |-> 0, tools |-> table]
    ELSE LET made == create_lambda_tool(table, valid_functions[k], k = regFailAt)
         IN  IF made.raised
             THEN [raised |-> TRUE, raisedAt |-> k, tools |-> table]
             ELSE RegisterLoop(valid_functions, k + 1, regFailAt, made.value)

\* The try block of main.py:191-216.
DiscoveryPass(reg, failAt, regFailAt) ==
    LET functions == list_functions_paginated(reg, failAt)
    IN  IF functions.raised
        THEN [raised |-> TRUE, raisedAt |-> 0, tools |-> EmptyTable,
              functions |-> functions, valid_functions |-> <<>>]
        ELSE LET valid_functions == SelectSeq(functions.value, validate_function_name)
                 done == RegisterLoop(valid_functions, 1, regFailAt, EmptyTable)
             IN  [raised |-> done.raised, raisedAt |-> done.raisedAt, tools |-> done.tools,
                  functions |-> functions, valid_functions |-> valid_functions]

\* main.py:224-225 and 230-231.
RegisterGenericTools(table) ==
    mcp_tool(mcp_tool(table, <<>>, ListHandler), <<>>, InvokeHandler)

NoDiscovery ==
    [raised |-> FALSE, raisedAt |-> 0, tools |-> EmptyTable,
     functions |-> Returned(<<>>), valid_functions |-> <<>>]

\* A bootstrap that drops the tools of a failed discovery pass.
BootTools_rollback(pre_discovery, reg, failAt, regFailAt) ==
    IF pre_discovery
    THEN LET d == DiscoveryPass(reg, failAt, regFailAt)
         IN  IF d.raised
             THEN [d EXCEPT !.tools = RegisterGenericTools(EmptyTable)]
             ELSE d
    ELSE [NoDiscovery EXCEPT !.tools = RegisterGenericTools(EmptyTable)]

\* main.py:190-232: the discovery pass, its except branch, the else branch.
BootTools(pre_discovery, reg, failAt, regFailAt) ==
    IF pre_discovery
    THEN LET d == DiscoveryPass(reg, failAt, regFailAt)
         IN  IF d.raised
             THEN [d EXCEPT !.tools = RegisterGenericTools(d.tools)]
             ELSE d
    ELSE [NoDiscovery EXCEPT !.tools = RegisterGenericTools(EmptyTable)]

NoBoot ==
    [failAt |-> 0, raised |-> FALSE, raisedAt |-> 0,
     functions |-> Returned(<<>>), valid_functions |-> <<>>]

NoCall ==
    [tool |-> <<>>, kind |-> "none", function_name |-> <<>>, parameters |-> "",
     failAt |-> 0, functions |-> Returned(<<>>), response |-> [none |-> TRUE],
     invoked |-> <<>>, errors |-> <<>>, result |-> Returned([template |-> ""])]

NoResponse == [none |-> TRUE]

\* The module-level code of main.py:187-234, run once.
Discover ==
    \E failAt \in 0..NumPages(registry), regFailAt \in 0..MaxFunctions :
        LET b == BootTools(PRE_DISCOVERY, registry, failAt, regFailAt)
        IN  /\ tools' = b.tools
            /\ boot' = [failAt |-> IF PRE_DISCOVERY THEN failAt ELSE 0,
                 raised |-> b.raised, raisedAt |-> b.raisedAt,
                 functions |-> b.functions,
                 valid_functions |-> b.valid_functions]
            /\ pc' = "serving"
            /\ last' = NoCall
            /\ UNCHANGED <<PRE_DISCOVERY, registry, san_name, san_result>>

\* A gateway that runs its discovery again while serving.
Bootstrap_again == Discover

Bootstrap == pc = "boot" /\ Discover

-----------------------------------------------------------------------------
(* Serving *)

Called(key, function_name, parameters, response, failAt, functions, done) ==
    [tool |-> key, kind |-> tools[key].kind, function_name |-> function_name,
     parameters |-> parameters,
     failAt |-> failAt, functions |-> functions,
     response |-> IF done.invoked = <<>> THEN NoResponse ELSE response,
     invoked |-> done.invoked, errors |-> done.errors, result |-> done.result]

\* A client calls a per-function tool.
CallLambdaTool ==
    /\ pc = "serving"
    /\ \E key \in DOMAIN tools, parameters \in Parameters :
          /\ tools[key].kind = "lambda_function"
          /\ \E response \in RemoteOutcomes(registry, tools[key].function_name) :
                last' = Called(key, tools[key].function_name, parameters, response,
                               0, Returned(<<>>),
                               lambda_function(tools[key], parameters, response))
    /\ UNCHANGED <<PRE_DISCOVERY, registry, pc, tools, boot, san_name, san_result>>

\* A client calls the generic invoke tool.
CallInvokeTool ==
    /\ pc = "serving"
    /\ \E key \in DOMAIN tools, function_name \in FunctionNames, parameters \in Parameters :
          /\ tools[key].kind = "invoke_lambda_function_impl"
          /\ \E response \in RemoteOutcomes(registry, function_name) :
                last' = Called(key, function_name, parameters, response,
                               0, Returned(<<>>),
                               invoke_lambda_function_impl(function_name, parameters, response))
    /\ UNCHANGED <<PRE_DISCOVERY, registry, pc, tools, boot, san_name, san_result>>

\* A client calls the generic list tool.
CallListTool ==
    /\ pc = "serving"
    /\ \E key \in DOMAIN tools, failAt \in 0..NumPages(registry) :
          /\ tools[key].kind = "list_lambda_functions_impl"
          /\ last' = Called(key, <<>>, "", NoResponse, failAt,
                            list_functions_paginated(registry, failAt),
                            list_lambda_functions_impl(registry, failAt))
    /\ UNCHANGED <<PRE_DISCOVERY, registry, pc, tools, boot, san_name, san_result>>

\* A function is deployed on the remote platform.
DeployFunction ==
    /\ Len(registry) < MaxFunctions
    /\ \E name \in FunctionNames \ Range(registry) : registry' = Append(registry, name)
    /\ UNCHANGED <<PRE_DISCOVERY, pc, tools, boot, last, san_name, san_result>>

\* A function is deleted from the remote platform.
DeleteFunction ==
    /\ \E i \in 1..Len(registry) :
          registry' = SubSeq(registry, 1, i - 1) \o SubSeq(registry, i + 1, Len(registry))
    /\ UNCHANGED <<PRE_DISCOVERY, pc, tools, boot, last, san_name, san_result>>

Init ==
    /\ PRE_DISCOVERY \in BOOLEAN
    /\ registry \in Registries
    /\ pc = "boot"
    /\ tools = EmptyTable
    /\ boot = NoBoot
    /\ last = NoCall
    /\ san_name = <<>>
    /\ san_result = [done |-> FALSE, value |-> <<>>]

Next ==
    \/ Bootstrap
    \/ CallLambdaTool
    \/ CallInvokeTool
    \/ CallListTool
    \/ DeployFunction
    \/ DeleteFunction

Spec == Init /\ [][Next]_vars

-----------------------------------------------------------------------------
(* sanitize_tool_name on its own *)

SanAlphabet == {"a", "Z", "7", "_", "-", "."}

SanSuffixes == UNION {[1..n -> SanAlphabet] : n \in 0..MaxNameLen}

\* Non-empty function names, with and without the prefix.
SanNames == (SanSuffixes \cup {FUNCTION_PREFIX \o s : s \in SanSuffixes}) \ {<<>>}

InitSan ==
    /\ PRE_DISCOVERY = TRUE
    /\ registry = <<>>
    /\ pc = "boot"
    /\ tools = EmptyTable
    /\ boot = NoBoot
    /\ last = NoCall
    /\ san_name \in SanNames
    /\ san_result = [done |-> FALSE, value |-> <<>>]

Sanitize ==
    /\ ~san_result.done
    /\ san_result' = [done |-> TRUE, value |-> sanitize_tool_name(san_name)]
    /\ UNCHANGED <<PRE_DISCOVERY, registry, pc, tools, boot, last, san_name>>

NextSan == Sanitize

SpecSan == InitSan /\ [][NextSan]_vars

-----------------------------------------------------------------------------
(* Properties *)

\* Eligibility as the naming policy states it: the name starts with the
\* prefix, or the allow-list holds it.
IsEligible(name) ==
    \/ /\ Len(name) >= Len(FUNCTION_PREFIX)
       /\ \A i \in 1..Len(FUNCTION_PREFIX) : name[i] = FUNCTION_PREFIX[i]
    \/ \E j \in 1..Len(FUNCTION_LIST) : FUNCTION_LIST[j] = name

IsLambdaTool(key) == key \in DOMAIN tools /\ tools[key].kind = "lambda_function"

GenericToolsRegistered ==
    /\ \E key \in DOMAIN tools : tools[key].kind = "list_lambda_functions_impl"
    /\ \E key \in DOMAIN tools : tools[key].kind = "invoke_lambda_function_impl"

\* C1: whenever discovery is enabled and the discovery pass fails in any way,
\* an enumeration failure included, bootstrap ends with the two generic tools
\* registered.
C1_FallbackOnAnyDiscoveryFailure ==
    (pc = "serving" /\ PRE_DISCOVERY /\ (boot.raised \/ boot.failAt > 0))
        => GenericToolsRegistered

\* C2: every remote invocation a tool call issues targets an eligible name;
\* the generic invoke tool called with an ineligible name issues none and
\* returns the rejection string.
C2_OnlyEligibleInvoked ==
    /\ \A i \in 1..Len(last.invoked) : IsEligible(last.invoked[i].FunctionName)
    /\ (last.kind = "invoke_lambda_function_impl" /\ ~IsEligible(last.function_name))
          => /\ last.invoked = <<>>
             /\ ~last.result.raised
             /\ last.result.value =
                    [template |-> "Function {function_name} is not valid",
                     function_name |-> last.function_name]

C2_Witness ==
    /\ last.kind = "invoke_lambda_function_impl"
    /\ last.function_name = NameOther
    /\ NameOther \in Range(registry)
    /\ last.invoked = <<>>

\* C3 as stated: every call of every registered tool returns a string and
\* lets no exception escape, whatever the remote platform does.
C3_NeverRaises == ~last.result.raised

\* C3 as amended: a tool call lets an exception escape exactly when the remote
\* invocation it issued failed in transport; in every other case (success,
\* FunctionError, enumeration failure, rejected name) it returns a string.
C3_RaisesOnlyOnTransportFailure ==
    last.kind /= "none" =>
        /\ last.result.raised <=> (last.invoked /= <<>> /\ last.response = TransportFailure)
        /\ ~last.result.raised => "template" \in DOMAIN last.result.value

C3_Witness ==
    /\ last.kind = "list_lambda_functions_impl"
    /\ last.failAt > 0
    /\ ~last.result.raised

\* C4: after a discovery pass that completes without error, every eligible
\* function of the remote registry has a tool under its derived identifier,
\* and no tool is registered for an ineligible function.
C4_EveryEligibleRegistered ==
    [][(pc = "boot" /\ pc' = "serving" /\ PRE_DISCOVERY /\ ~boot'.raised /\ boot'.failAt = 0)
          => /\ \A i \in 1..Len(registry) :
                    IsEligible(registry[i]) => IsLambdaTool(sanitize_tool_name(registry[i]))'
             /\ \A key \in DOMAIN tools' :
                    /\ tools'[key].kind = "lambda_function"
                    /\ IsEligible(tools'[key].function_name)]_vars

\* C5: when the invocation a tool call issued answers with a FunctionError,
\* the call logs one message through ctx.error and returns that message,
\* which names the function and the FunctionError value and carries no payload.
C5_FunctionErrorReturned ==
    (last.invoked /= <<>> /\ "FunctionError" \in DOMAIN last.response)
        => /\ ~last.result.raised
           /\ DOMAIN last.result.value = {"template", "function_name", "FunctionError"}
           /\ last.result.value.function_name = last.invoked[1].FunctionName
           /\ last.result.value.FunctionError = last.response.FunctionError
           /\ last.errors = <<last.result.value>>

C5_Witness ==
    /\ last.kind = "lambda_function"
    /\ last.invoked /= <<>>
    /\ "FunctionError" \in DOMAIN last.response

\* C6: for every non-empty function name, the prefix itself included,
\* sanitize_tool_name returns a non-empty identifier made of letters, digits
\* and underscores that does not start with a digit.
C6_SanitizeLegalIdentifier ==
    (san_result.done /\ Len(san_name) > 0)
        => /\ Len(san_result.value) > 0
           /\ \A i \in 1..Len(san_result.value) : san_result.value[i] \in WordChars
           /\ san_result.value[1] \notin Digits

\* C7: once bootstrap has finished the tool table never changes, whatever
\* tool calls follow and however the remote registry changes.
C7_ToolTableFrozen == [][pc = "serving" => tools' = tools]_vars

C7_Witness ==
    /\ pc = "serving" /\ PRE_DISCOVERY /\ ~boot.raised /\ boot.failAt = 0
    /\ last.kind = "lambda_function"
    /\ \E i \in 1..Len(registry) :
          /\ StartsWith(registry[i], FUNCTION_PREFIX)
          /\ Len(sanitize_tool_name(registry[i])) > 0
          /\ sanitize_tool_name(registry[i]) \notin DOMAIN tools

\* C8: a call of the per-function tool registered under the identifier of an
\* eligible function n, an identifier no other eligible function shares,
\* issues exactly one remote invocation: to n, with the caller's parameters.
C8_ToolBoundToItsFunction ==
    last.kind = "lambda_function" =>
        \A i \in 1..Len(boot.valid_functions) :
            LET n == boot.valid_functions[i]
            IN  (/\ sanitize_tool_name(n) = last.tool
                 /\ \A j \in 1..Len(boot.valid_functions) :
                       j /= i => sanitize_tool_name(boot.valid_functions[j])
                                     /= sanitize_tool_name(n))
                    => last.invoked =
                           <<[FunctionName |-> n, Payload |-> [json |-> last.parameters]]>>

C8_Witness ==
    /\ last.kind = "lambda_function"
    /\ last.tool = <<"_", "1">>
    /\ boot.valid_functions = <<NameDigit, NamePrefix>>
    /\ last.invoked = <<[FunctionName |-> NameDigit, Payload |-> [json |-> "{\"k\": 1}"]]>>

\* C9: when the registration of the k-th eligible function raises, nothing is
\* rolled back: the tools of the functions before it stay registered, the
\* k-th and later functions get none, and the two generic tools are added.
C9_NoRollback ==
    (pc = "serving" /\ PRE_DISCOVERY /\ boot.raisedAt > 0) =>
        /\ \A i \in 1..Len(boot.valid_functions) :
              LET n == boot.valid_functions[i]
                  bound == \E key \in DOMAIN tools :
                               tools[key] = [kind |-> "lambda_function", function_name |-> n]
                  shadowed == \E j \in 1..(i - 1) :
                                  sanitize_tool_name(boot.valid_functions[j])
                                      = sanitize_tool_name(n)
              IN  IF i < boot.raisedAt THEN bound \/ shadowed ELSE ~bound
        /\ GenericToolsRegistered

C9_Witness ==
    /\ pc = "serving" /\ PRE_DISCOVERY
    /\ boot.raisedAt = 2
    /\ IsLambdaTool(sanitize_tool_name(boot.valid_functions[1]))
    /\ Cardinality(DOMAIN tools) = 3

\* What list_functions_paginated owes for a registry and the page whose fetch
\* fails (0: none).
ExpectedListing(reg, failAt) ==
    IF failAt \in 1..NumPages(reg)
    THEN <<>>
    ELSE SelectSeq(reg, LAMBDA f : StartsWith(f, FUNCTION_PREFIX))

\* C10: list_functions_paginated never propagates an enumeration error: an
\* error on any page, a later page included, gives the empty sequence; with
\* no error it gives the matching functions of all pages in enumeration order.
C10_ListingEmptyOnError ==
    [][/\ (pc = "boot" /\ pc' = "serving" /\ PRE_DISCOVERY)
           => boot'.functions = Returned(ExpectedListing(registry, boot'.failAt))
       /\ (last' /= last /\ last'.kind = "list_lambda_functions_impl")
           => last'.functions = Returned(ExpectedListing(registry, last'.failAt))]_vars

C10_Witness ==
    /\ last.kind = "list_lambda_functions_impl"
    /\ last.failAt = 2
    /\ last.functions = Returned(<<>>)
    /\ Len(registry) > 0 /\ StartsWith(registry[1], FUNCTION_PREFIX)

=============================================================================
